---- MODULE Spec2Model ----
(***************************************************************************)
(* Model of the auction backend (src/backend/app.py): the per-room auction *)
(* state kept in the process-wide dictionary auction_states, the two       *)
(* snapshot files of every room (state file and its ".backup"), and the    *)
(* request handlers pick / skip / assign / reset / undo / save / load.     *)
(*                                                                         *)
(* A handler is one action in the sequential specifications; the           *)
(* concurrent specification runs assign_player statement by statement in   *)
(* several request threads (the server is started with app.run, which      *)
(* serves every request in its own thread, and the handlers take no lock). *)
(* Timestamps (saved_at, timestamp) are not modelled.                      *)
(***************************************************************************)
EXTENDS Integers, Sequences, FiniteSets, TLC

VARIABLES
  auction_states,  \* dict room_id -> room state (the module-level dictionary)
  state_files,     \* room_id -> content of the room's state file
  backup_files,    \* room_id -> content of the room's ".backup" file
  players_yaml,    \* auction key -> raw player names of that players file
  response,        \* what the last finished handler returned
  threads,         \* request thread -> position and locals of its handler
  disk             \* condition of the directory that holds the snapshot files

vars == <<auction_states, state_files, backup_files, players_yaml, response, threads,
         disk>>

(***************************************************************************)
(* Bounds and input sets                                                   *)
(***************************************************************************)
NumPlayers == 2

AllNames == <<"P1", "P2", "P3", "P4", "P5", "P6">>

None == "None"

RoomIds == {"default"}

\* the rooms of the runs that serve two rooms
TwoRooms == {"default", "room2"}

AuctionInputs == {None}

CaptainInputs == {"Anshu", "Arunendu", "Nobody"}

PriceInputs == {3, 5, 150}

\* the assign inputs of the runs in which the players file is edited or the
\* snapshot directory fails
RosterCaptains == {"Anshu"}

RosterPrices == {5}

\* the price of the assigns in the runs with restarts: a captain can pay it
\* once
BootstrapPrices == {150}

\* the captains named in the assign requests of the auction's room
AuctionCaptains == {"Anshu", "Arunendu"}

\* the rooms served in the runs that create rooms
CreateRooms == {"default", "room_2"}

\* the names of the create-room requests: "Default", "Room 2", "room-2",
\* " room_2!", the empty name and "!"
RoomNames ==
  { <<"D", "e", "f", "a", "u", "l", "t">>,
    <<"R", "o", "o", "m", " ", "2">>,
    <<"r", "o", "o", "m", "-", "2">>,
    <<" ", "r", "o", "o", "m", "_", "2", "!">>,
    <<>>,
    <<"!">> }

NumThreads == 2

Threads == 1..NumThreads

ConcurrentCaptains == {"Anshu", "Arunendu"}

ConcurrentPrices == {5, 150}

(***************************************************************************)
(* Program constants                                                       *)
(***************************************************************************)
DEFAULT_CAPTAINS == <<"Anshu", "Arunendu", "Avinash", "Priyanko", "Rishav", "Robin">>

INITIAL_POINTS == 200

DEFAULT_MIN_PRICE == 5

DEFAULT_ROOM == "default"

(***************************************************************************)
(* Python list / dict helpers                                              *)
(***************************************************************************)
Range(s) == {s[i] : i \in DOMAIN s}

\* x in list
In(x, s) == \E i \in DOMAIN s : s[i] = x

\* list.remove(x): drops the first occurrence only
ListRemove(s, x) ==
  IF ~In(x, s) THEN s
  ELSE LET k == CHOOSE i \in DOMAIN s : s[i] = x /\ \A j \in 1..(i - 1) : s[j] # x
       IN  SubSeq(s, 1, k - 1) \o SubSeq(s, k + 1, Len(s))

\* every order random.shuffle can leave the list in
Shuffles(s) == {[i \in 1..Len(s) |-> s[f[i]]] : f \in Permutations(1..Len(s))}

\* every order in which a Python set can be iterated
Orderings(S) == {f \in [1..Cardinality(S) -> S] : \A i, j \in 1..Cardinality(S) : f[i] = f[j] => i = j}

RECURSIVE SumSeq(_)
SumSeq(s) == IF s = <<>> THEN 0 ELSE s[1] + SumSeq(Tail(s))

RECURSIVE SumOver(_, _)
SumOver(f, S) ==
  IF S = {} THEN 0
  ELSE LET k == CHOOSE k \in S : TRUE IN f[k] + SumOver(f, S \ {k})

(***************************************************************************)
(* Roster and configuration                                                *)
(***************************************************************************)
\* name.split()[0] for the names that occur in the model
FirstToken(name) ==
  CASE name = "Robin Singh" -> "Robin"
    [] OTHER -> name

\* no auction configuration file exists in the modelled deployment
\* the auction configuration files on disk: one auction with its own captains
SummerCup == "summer"

auction_configs ==
  (SummerCup :> [captains_list |-> <<"Anshu", "Arunendu">>,
                 initial_points |-> INITIAL_POINTS,
                 base_price |-> DEFAULT_MIN_PRICE])

get_auction_config(auction_id) ==
  IF auction_id \in DOMAIN auction_configs
  THEN [exists |-> TRUE,
        captains_list |-> auction_configs[auction_id].captains_list,
        initial_points |-> auction_configs[auction_id].initial_points,
        base_price |-> auction_configs[auction_id].base_price]
  ELSE [exists |-> FALSE]

captains_list_of(auction_id) ==
  IF auction_id # None /\ get_auction_config(auction_id).exists
  THEN get_auction_config(auction_id).captains_list
  ELSE DEFAULT_CAPTAINS

initial_points_of(auction_id) ==
  IF auction_id # None /\ get_auction_config(auction_id).exists
  THEN get_auction_config(auction_id).initial_points
  ELSE INITIAL_POINTS

base_price_of(auction_id) ==
  IF auction_id # None /\ get_auction_config(auction_id).exists
  THEN get_auction_config(auction_id).base_price
  ELSE DEFAULT_MIN_PRICE

\* the loop of load_players: skip captains, skip names whose first token is a
\* captain, skip empty names, keep the first occurrence of every other name
RECURSIVE DedupPlayers(_, _, _)
DedupPlayers(raw, captains_set, acc) ==
  IF raw = <<>> THEN acc
  ELSE LET name == Head(raw)
           keep == /\ name \notin captains_set
                   /\ FirstToken(name) \notin captains_set
                   /\ name # ""
                   /\ ~In(name, acc)
       IN  DedupPlayers(Tail(raw), captains_set, IF keep THEN Append(acc, name) ELSE acc)

load_players(auction_id) ==
  LET key == IF auction_id # None /\ get_auction_config(auction_id).exists
                  /\ auction_id \in DOMAIN players_yaml
             THEN auction_id ELSE None
      captains_set == IF auction_id # None
                      THEN (IF get_auction_config(auction_id).exists
                            THEN Range(get_auction_config(auction_id).captains_list)
                            ELSE Range(DEFAULT_CAPTAINS))
                      ELSE Range(DEFAULT_CAPTAINS)
  IN  IF key \notin DOMAIN players_yaml THEN <<>>
      ELSE DedupPlayers(players_yaml[key], captains_set, <<>>)

(***************************************************************************)
(* Room state and snapshot files                                           *)
(***************************************************************************)
NoAssignment == [isNone |-> TRUE]

NoFile == [kind |-> "absent"]

\* the dictionary get_room_state creates for an unknown room
NewRoom ==
  [remaining |-> <<>>, current |-> None, balances |-> <<>>, teams |-> <<>>,
   skipped |-> <<>>, last_assignment |-> NoAssignment, initialized |-> FALSE]

\* the handlers work on a "world": memory plus the two files of every room
World ==
  [mem |-> auction_states, primary |-> state_files, backup |-> backup_files,
   disk |-> disk]

get_room_state(w, room_id) ==
  IF room_id \in DOMAIN w.mem THEN w
  ELSE [w EXCEPT !.mem = (room_id :> NewRoom) @@ w.mem]

\* mutant: the snapshot is written without the last assignment
Snapshot_NoLastAssignment(st) ==
  [kind |-> "dict", remaining |-> st.remaining, current |-> st.current,
   balances |-> st.balances, teams |-> st.teams, skipped |-> st.skipped,
   last_assignment |-> NoAssignment]

Snapshot(st) ==
  [kind |-> "dict", remaining |-> st.remaining, current |-> st.current,
   balances |-> st.balances, teams |-> st.teams, skipped |-> st.skipped,
   last_assignment |-> st.last_assignment]

\* the six assignments that copy a snapshot into the room's dictionary
Adopt(st, snap) ==
  [st EXCEPT !.remaining = snap.remaining, !.current = snap.current,
             !.balances = snap.balances, !.teams = snap.teams,
             !.skipped = snap.skipped, !.last_assignment = snap.last_assignment]

\* a state file that json.load cannot parse (empty or cut short)
Truncated == [kind |-> "truncated"]

\* The conditions of the snapshot directory.  "readonly": os.remove,
\* os.rename and open(.., "w") raise, no file changes.  "full": removing and
\* renaming work and open(.., "w") leaves an empty file, json.dump raises
\* before the snapshot is complete.  Every exception is caught inside
\* save_auction_state, which then returns False.
DiskConditions == {"ok", "readonly", "full"}

\* mutant: an existing backup file is kept, the state file is not rotated into it
save_auction_state_KeepsOldBackup(w, room_id) ==
  LET w1 == get_room_state(w, room_id)
      old == w1.primary[room_id]
  IN  CASE w1.disk = "readonly" -> w1
        [] w1.disk = "full" ->
             [w1 EXCEPT !.backup[room_id] =
                          IF old.kind # "absent" /\ @.kind = "absent" THEN old ELSE @,
                        !.primary[room_id] = Truncated]
        [] OTHER ->
             [w1 EXCEPT !.backup[room_id] =
                          IF old.kind # "absent" /\ @.kind = "absent" THEN old ELSE @,
                        !.primary[room_id] = Snapshot(w1.mem[room_id])]

\* mutant: every room is saved to the files of the default room
save_auction_state_DefaultFile(w, room_id) ==
  LET w1 == get_room_state(w, room_id)
      old == w1.primary[DEFAULT_ROOM]
  IN  CASE w1.disk = "readonly" -> w1
        [] w1.disk = "full" ->
             [w1 EXCEPT !.backup[DEFAULT_ROOM] = IF old.kind # "absent" THEN old ELSE @,
                        !.primary[DEFAULT_ROOM] = Truncated]
        [] OTHER ->
             [w1 EXCEPT !.backup[DEFAULT_ROOM] = IF old.kind # "absent" THEN old ELSE @,
                        !.primary[DEFAULT_ROOM] = Snapshot(w1.mem[room_id])]

save_auction_state(w, room_id) ==
  LET w1 == get_room_state(w, room_id)
      old == w1.primary[room_id]
  IN  CASE w1.disk = "readonly" -> w1
        [] w1.disk = "full" ->
             [w1 EXCEPT !.backup[room_id] = IF old.kind # "absent" THEN old ELSE @,
                        !.primary[room_id] = Truncated]
        [] OTHER ->
             [w1 EXCEPT !.backup[room_id] = IF old.kind # "absent" THEN old ELSE @,
                        !.primary[room_id] = Snapshot(w1.mem[room_id])]

\* returns the world after the call and the boolean the function returns
load_auction_state(w, room_id) ==
  LET w1   == get_room_state(w, room_id)
      file == w1.primary[room_id]
      bak  == w1.backup[room_id]
  IN  CASE file.kind = "absent" -> [w |-> w1, ok |-> FALSE]
        [] file.kind = "dict" ->
             [w |-> [w1 EXCEPT !.mem[room_id] = Adopt(@, file)], ok |-> TRUE]
        [] file.kind = "notdict" -> [w |-> w1, ok |-> FALSE]
        [] OTHER ->   \* json.load raised: fall back to the backup file
             IF bak.kind = "dict"
             THEN [w |-> [w1 EXCEPT !.mem[room_id] = Adopt(@, bak)], ok |-> TRUE]
             ELSE [w |-> w1, ok |-> FALSE]

TeamPlayers(team) == {team[i].player : i \in DOMAIN team}

FilterTeam(team, names) == SelectSeq(team, LAMBDA item : item.player \in names)

FilterList(s, names) == SelectSeq(s, LAMBDA p : p \in names)

\* mutant: on an initialised room the call takes the player off the block
initialize_auction_ClearsCurrent(w, room_id, auction_id) ==
  LET captains_list  == captains_list_of(auction_id)
      captains       == Range(captains_list)
      initial_points == initial_points_of(auction_id)
      players        == load_players(auction_id)
      names          == Range(players)
      w1             == get_room_state(w, room_id)
  IN  IF ~w1.mem[room_id].initialized
      THEN
        LET ld  == load_auction_state(w1, room_id)
            st0 == IF ld.ok THEN ld.w.mem[room_id]
                   ELSE [ld.w.mem[room_id] EXCEPT
                           !.remaining = players, !.skipped = <<>>, !.current = None,
                           !.balances = [c \in captains |-> initial_points],
                           !.teams = [c \in captains |-> <<>>]]
            assigned == UNION {TeamPlayers(st0.teams[c]) : c \in captains \cap DOMAIN st0.teams}
            rem1     == FilterList(st0.remaining, names)
            missing  == {p \in names : ~In(p, rem1) /\ p \notin assigned}
            teams1   == [c \in DOMAIN st0.teams \cup captains |->
                           IF c \in captains
                           THEN (IF c \in DOMAIN st0.teams
                                 THEN FilterTeam(st0.teams[c], names) ELSE <<>>)
                           ELSE st0.teams[c]]
            balances1 == [c \in DOMAIN st0.balances \cup captains |->
                           IF c \in DOMAIN st0.balances THEN st0.balances[c]
                           ELSE initial_points]
            current1 == IF st0.current # None /\ st0.current \notin names
                        THEN None ELSE st0.current
        IN  { save_auction_state(
                [ld.w EXCEPT !.mem[room_id] =
                   [st0 EXCEPT !.remaining = rem1 \o added, !.teams = teams1,
                               !.balances = balances1, !.current = current1,
                               !.initialized = TRUE]],
                room_id) : added \in Orderings(missing) }
      ELSE
        LET st == w1.mem[room_id]
        IN  { [w1 EXCEPT !.mem[room_id] =
                 [st EXCEPT !.remaining = FilterList(st.remaining, names),
                            !.teams = [c \in DOMAIN st.teams |->
                                         IF c \in captains
                                         THEN FilterTeam(st.teams[c], names)
                                         ELSE st.teams[c]],
                            !.current = None]] }

\* the set of worlds initialize_auction can leave behind (the order in which
\* new players are appended is the iteration order of a Python set)
initialize_auction(w, room_id, auction_id) ==
  LET captains_list  == captains_list_of(auction_id)
      captains       == Range(captains_list)
      initial_points == initial_points_of(auction_id)
      players        == load_players(auction_id)
      names          == Range(players)
      w1             == get_room_state(w, room_id)
  IN  IF ~w1.mem[room_id].initialized
      THEN
        LET ld  == load_auction_state(w1, room_id)
            st0 == IF ld.ok THEN ld.w.mem[room_id]
                   ELSE [ld.w.mem[room_id] EXCEPT
                           !.remaining = players, !.skipped = <<>>, !.current = None,
                           !.balances = [c \in captains |-> initial_points],
                           !.teams = [c \in captains |-> <<>>]]
            assigned == UNION {TeamPlayers(st0.teams[c]) : c \in captains \cap DOMAIN st0.teams}
            rem1     == FilterList(st0.remaining, names)
            missing  == {p \in names : ~In(p, rem1) /\ p \notin assigned}
            teams1   == [c \in DOMAIN st0.teams \cup captains |->
                           IF c \in captains
                           THEN (IF c \in DOMAIN st0.teams
                                 THEN FilterTeam(st0.teams[c], names) ELSE <<>>)
                           ELSE st0.teams[c]]
            balances1 == [c \in DOMAIN st0.balances \cup captains |->
                           IF c \in DOMAIN st0.balances THEN st0.balances[c]
                           ELSE initial_points]
            current1 == IF st0.current # None /\ st0.current \notin names
                        THEN None ELSE st0.current
        IN  { save_auction_state(
                [ld.w EXCEPT !.mem[room_id] =
                   [st0 EXCEPT !.remaining = rem1 \o added, !.teams = teams1,
                               !.balances = balances1, !.current = current1,
                               !.initialized = TRUE]],
                room_id) : added \in Orderings(missing) }
      ELSE
        LET st == w1.mem[room_id]
        IN  { [w1 EXCEPT !.mem[room_id] =
                 [st EXCEPT !.remaining = FilterList(st.remaining, names),
                            !.teams = [c \in DOMAIN st.teams |->
                                         IF c \in captains
                                         THEN FilterTeam(st.teams[c], names)
                                         ELSE st.teams[c]],
                            !.current = IF st.current # None /\ st.current \notin names
                                        THEN None ELSE st.current]] }

\* mutant: the recycle forgets to clear the skipped list
Recycled_KeepsSkipped(st) ==
  IF st.remaining = <<>> /\ st.skipped # <<>>
  THEN {[st EXCEPT !.remaining = r] : r \in Shuffles(st.skipped)}
  ELSE {st}

\* mutant: the recycle loses the player that was skipped last
Recycled_LosesPlayer(st) ==
  IF st.remaining = <<>> /\ st.skipped # <<>>
  THEN {[st EXCEPT !.remaining = r, !.skipped = <<>>] :
          r \in Shuffles(SubSeq(st.skipped, 1, Len(st.skipped) - 1))}
  ELSE {st}

\* mutant: the skipped players are never recycled
Recycled_Never(st) == {st}

\* the recycle block shared by pick, skip and assign
Recycled(st) ==
  IF st.remaining = <<>> /\ st.skipped # <<>>
  THEN {[st EXCEPT !.remaining = r, !.skipped = <<>>] : r \in Shuffles(st.skipped)}
  ELSE {st}

(***************************************************************************)
(* Handlers                                                                *)
(***************************************************************************)
Resp(op, room_id, status, error) ==
  [op |-> op, room_id |-> room_id, status |-> status, error |-> error]

\* mutant: a handler whose save failed rolls the memory back and returns 500
Return_ReportsSaveFailure(w, resp) ==
  LET failed == /\ w.disk # "ok" /\ resp.status = 200
                /\ resp.op \in {"pick", "skip", "assign", "reset"}
  IN  /\ auction_states' = IF failed THEN auction_states ELSE w.mem
      /\ state_files' = w.primary
      /\ backup_files' = w.backup
      /\ response' = IF failed THEN [resp EXCEPT !.status = 500] ELSE resp
      /\ UNCHANGED <<players_yaml, threads, disk>>

\* the handler returns: its world becomes the program state
Return(w, resp) ==
  /\ auction_states' = w.mem
  /\ state_files' = w.primary
  /\ backup_files' = w.backup
  /\ response' = resp
  /\ UNCHANGED <<players_yaml, threads, disk>>

\* mutant: pick does not look at the current slot
pick_player_NoGuard(room_id) ==
  \E w1 \in initialize_auction(World, room_id, None) :
    LET st == w1.mem[room_id] IN
    \E rec \in Recycled(st) :
      IF rec.remaining = <<>>
      THEN Return([w1 EXCEPT !.mem[room_id] = rec],
                  Resp("pick", room_id, 400, "No players left in the pool"))
      ELSE \E p \in Range(rec.remaining) :
             Return(save_auction_state(
                      [w1 EXCEPT !.mem[room_id] = [rec EXCEPT !.current = p]], room_id),
                    Resp("pick", room_id, 200, ""))

\* mutant: pick does not recycle the skipped players
pick_player_NoRecycle(room_id) ==
  \E w1 \in initialize_auction(World, room_id, None) :
    LET st == w1.mem[room_id] IN
    IF st.current # None
    THEN Return(w1, Resp("pick", room_id, 400, "A player is already selected"))
    ELSE IF st.remaining = <<>>
         THEN Return(w1, Resp("pick", room_id, 400, "No players left in the pool"))
         ELSE \E p \in Range(st.remaining) :
                Return(save_auction_state(
                         [w1 EXCEPT !.mem[room_id] = [st EXCEPT !.current = p]], room_id),
                       Resp("pick", room_id, 200, ""))

\* mutant: pick does not check that the pool is empty (random.choice raises)
pick_player_NoEmptyCheck(room_id) ==
  \E w1 \in initialize_auction(World, room_id, None) :
    LET st == w1.mem[room_id] IN
    IF st.current # None
    THEN Return(w1, Resp("pick", room_id, 400, "A player is already selected"))
    ELSE \E rec \in Recycled(st) :
           IF rec.remaining = <<>>
           THEN Return([w1 EXCEPT !.mem[room_id] = rec],
                       Resp("pick", room_id, 500, "Failed to pick player"))
           ELSE \E p \in Range(rec.remaining) :
                  Return(save_auction_state(
                           [w1 EXCEPT !.mem[room_id] = [rec EXCEPT !.current = p]], room_id),
                         Resp("pick", room_id, 200, ""))

\* mutant: pick takes the selected player out of the remaining list
pick_player_RemovesSelected(room_id) ==
  \E w1 \in initialize_auction(World, room_id, None) :
    LET st == w1.mem[room_id] IN
    IF st.current # None
    THEN Return(w1, Resp("pick", room_id, 400, "A player is already selected"))
    ELSE \E rec \in Recycled(st) :
           IF rec.remaining = <<>>
           THEN Return([w1 EXCEPT !.mem[room_id] = rec],
                       Resp("pick", room_id, 400, "No players left in the pool"))
           ELSE \E p \in Range(rec.remaining) :
                  Return(save_auction_state(
                           [w1 EXCEPT !.mem[room_id] =
                              [rec EXCEPT !.current = p, !.remaining = ListRemove(@, p)]],
                           room_id),
                         Resp("pick", room_id, 200, ""))

pick_player(room_id) ==
  \E w1 \in initialize_auction(World, room_id, None) :
    LET st == w1.mem[room_id] IN
    IF st.current # None
    THEN Return(w1, Resp("pick", room_id, 400, "A player is already selected"))
    ELSE \E rec \in Recycled(st) :
           IF rec.remaining = <<>>
           THEN Return([w1 EXCEPT !.mem[room_id] = rec],
                       Resp("pick", room_id, 400, "No players left in the pool"))
           ELSE \E p \in Range(rec.remaining) :
                  Return(save_auction_state(
                           [w1 EXCEPT !.mem[room_id] = [rec EXCEPT !.current = p]], room_id),
                         Resp("pick", room_id, 200, ""))

\* mutant: skip leaves the skipped player in the remaining list
skip_player_KeepsRemaining(room_id) ==
  \E w1 \in initialize_auction(World, room_id, None) :
    LET st == w1.mem[room_id] IN
    IF st.current = None
    THEN Return(w1, Resp("skip", room_id, 400, "No player selected"))
    ELSE LET cur == st.current
             st1 == [st EXCEPT !.skipped = IF In(cur, @) THEN @ ELSE Append(@, cur)]
         IN  \E rec \in Recycled(st1) :
               \E p \in (IF rec.remaining # <<>> THEN Range(rec.remaining) ELSE {None}) :
                 Return(save_auction_state(
                          [w1 EXCEPT !.mem[room_id] = [rec EXCEPT !.current = p]], room_id),
                        Resp("skip", room_id, 200, ""))

\* mutant: skip puts the player in skipped after the recycle check
skip_player_AppendsAfterRecycle(room_id) ==
  \E w1 \in initialize_auction(World, room_id, None) :
    LET st == w1.mem[room_id] IN
    IF st.current = None
    THEN Return(w1, Resp("skip", room_id, 400, "No player selected"))
    ELSE LET cur == st.current
             st1 == [st EXCEPT !.remaining = ListRemove(@, cur)]
         IN  \E rec \in Recycled(st1) :
               \E p \in (IF rec.remaining # <<>> THEN Range(rec.remaining) ELSE {None}) :
                 Return(save_auction_state(
                          [w1 EXCEPT !.mem[room_id] =
                             [rec EXCEPT !.current = p,
                                         !.skipped = IF In(cur, @) THEN @ ELSE Append(@, cur)]],
                          room_id),
                        Resp("skip", room_id, 200, ""))

skip_player(room_id) ==
  \E w1 \in initialize_auction(World, room_id, None) :
    LET st == w1.mem[room_id] IN
    IF st.current = None
    THEN Return(w1, Resp("skip", room_id, 400, "No player selected"))
    ELSE LET cur == st.current
             st1 == [st EXCEPT !.remaining = ListRemove(@, cur),
                               !.skipped = IF In(cur, @) THEN @ ELSE Append(@, cur)]
         IN  \E rec \in Recycled(st1) :
               \E p \in (IF rec.remaining # <<>> THEN Range(rec.remaining) ELSE {None}) :
                 Return(save_auction_state(
                          [w1 EXCEPT !.mem[room_id] = [rec EXCEPT !.current = p]], room_id),
                        Resp("skip", room_id, 200, ""))

\* mutant: the price is not taken from the captain's balance
Assigned_NoDeduct(st, captain, price) ==
  LET current_player == st.current
      old_balance    == st.balances[captain]
      st1 == [st EXCEPT
                !.teams[captain] = Append(@, [player |-> current_player, price |-> price]),
                !.last_assignment = [player |-> current_player, captain |-> captain,
                                     price |-> price, old_balance |-> old_balance,
                                     new_balance |-> old_balance],
                !.remaining = ListRemove(@, current_player),
                !.current = None]
  IN  Recycled(st1)

\* mutant: the assigned player stays in the remaining list
Assigned_KeepsRemaining(st, captain, price) ==
  LET current_player == st.current
      old_balance    == st.balances[captain]
      st1 == [st EXCEPT
                !.balances[captain] = @ - price,
                !.teams[captain] = Append(@, [player |-> current_player, price |-> price]),
                !.last_assignment = [player |-> current_player, captain |-> captain,
                                     price |-> price, old_balance |-> old_balance,
                                     new_balance |-> old_balance - price],
                !.current = None]
  IN  Recycled(st1)

\* the assignment block of assign_player, up to and including the recycle
Assigned(st, captain, price) ==
  LET current_player == st.current
      old_balance    == st.balances[captain]
      st1 == [st EXCEPT
                !.balances[captain] = @ - price,
                !.teams[captain] = Append(@, [player |-> current_player, price |-> price]),
                !.last_assignment = [player |-> current_player, captain |-> captain,
                                     price |-> price, old_balance |-> old_balance,
                                     new_balance |-> old_balance - price],
                !.remaining = ListRemove(@, current_player),
                !.current = None]
  IN  Recycled(st1)

\* mutant: the balance is not checked
AssignCheck_NoBalanceCheck(current_player, balances, auction_id, captain, price) ==
  IF current_player = None
  THEN [status |-> 400, error |-> "No player selected"]
  ELSE IF captain \notin Range(captains_list_of(auction_id))
  THEN [status |-> 400, error |-> "Invalid captain"]
  ELSE IF price < base_price_of(auction_id)
  THEN [status |-> 400, error |-> "Minimum price"]
  ELSE IF captain \notin DOMAIN balances
  THEN [status |-> 500, error |-> "Failed to assign player"]
  ELSE [status |-> 200, error |-> ""]

\* mutant: the price is compared with the starting balance
AssignCheck_InitialBalance(current_player, balances, auction_id, captain, price) ==
  IF current_player = None
  THEN [status |-> 400, error |-> "No player selected"]
  ELSE IF captain \notin Range(captains_list_of(auction_id))
  THEN [status |-> 400, error |-> "Invalid captain"]
  ELSE IF price < base_price_of(auction_id)
  THEN [status |-> 400, error |-> "Minimum price"]
  ELSE IF captain \notin DOMAIN balances
  THEN [status |-> 500, error |-> "Failed to assign player"]
  ELSE IF price > initial_points_of(auction_id)
  THEN [status |-> 400, error |-> "Not enough balance"]
  ELSE [status |-> 200, error |-> ""]

\* mutant: the minimum price is not checked
AssignCheck_NoMinPrice(current_player, balances, auction_id, captain, price) ==
  IF current_player = None
  THEN [status |-> 400, error |-> "No player selected"]
  ELSE IF captain \notin Range(captains_list_of(auction_id))
  THEN [status |-> 400, error |-> "Invalid captain"]
  ELSE IF captain \notin DOMAIN balances
  THEN [status |-> 500, error |-> "Failed to assign player"]
  ELSE IF price > balances[captain]
  THEN [status |-> 400, error |-> "Not enough balance"]
  ELSE [status |-> 200, error |-> ""]

\* mutant: the captain is validated before the selection
AssignCheck_CaptainFirst(current_player, balances, auction_id, captain, price) ==
  IF captain \notin Range(captains_list_of(auction_id))
  THEN [status |-> 400, error |-> "Invalid captain"]
  ELSE IF current_player = None
  THEN [status |-> 400, error |-> "No player selected"]
  ELSE IF price < base_price_of(auction_id)
  THEN [status |-> 400, error |-> "Minimum price"]
  ELSE IF captain \notin DOMAIN balances
  THEN [status |-> 500, error |-> "Failed to assign player"]
  ELSE IF price > balances[captain]
  THEN [status |-> 400, error |-> "Not enough balance"]
  ELSE [status |-> 200, error |-> ""]

\* the validation chain of assign_player: the status and error it returns, or
\* status 200 when the assignment goes ahead
AssignCheck(current_player, balances, auction_id, captain, price) ==
  IF current_player = None
  THEN [status |-> 400, error |-> "No player selected"]
  ELSE IF captain \notin Range(captains_list_of(auction_id))
  THEN [status |-> 400, error |-> "Invalid captain"]
  ELSE IF price < base_price_of(auction_id)
  THEN [status |-> 400, error |-> "Minimum price"]
  ELSE IF captain \notin DOMAIN balances      \* KeyError, caught by the handler
  THEN [status |-> 500, error |-> "Failed to assign player"]
  ELSE IF price > balances[captain]
  THEN [status |-> 400, error |-> "Not enough balance"]
  ELSE [status |-> 200, error |-> ""]

assign_player(room_id, auction_id, captain, price) ==
  \E w1 \in initialize_auction(World, room_id, auction_id) :
    LET st    == w1.mem[room_id]
        check == AssignCheck(st.current, st.balances, auction_id, captain, price)
    IN
    IF check.status # 200
    THEN Return(w1, Resp("assign", room_id, check.status, check.error))
    ELSE IF captain \notin DOMAIN st.teams      \* KeyError after the balance was cut
    THEN Return([w1 EXCEPT !.mem[room_id].balances[captain] = @ - price],
                Resp("assign", room_id, 500, "Failed to assign player"))
    ELSE \E rec \in Assigned(st, captain, price) :
           Return(save_auction_state([w1 EXCEPT !.mem[room_id] = rec], room_id),
                  Resp("assign", room_id, 200, ""))

\* mutant: reset leaves the balances as they are
reset_auction_KeepsBalances(room_id, auction_id) ==
  LET captains == Range(captains_list_of(auction_id))
      players  == load_players(auction_id)
      w1       == get_room_state(World, room_id)
      st       == [w1.mem[room_id] EXCEPT
                     !.remaining = players, !.skipped = <<>>, !.current = None,
                     !.teams = [c \in captains |-> <<>>],
                     !.initialized = TRUE]
  IN  Return(save_auction_state([w1 EXCEPT !.mem[room_id] = st], room_id),
             Resp("reset", room_id, 200, ""))

reset_auction(room_id, auction_id) ==
  LET captains == Range(captains_list_of(auction_id))
      players  == load_players(auction_id)
      w1       == get_room_state(World, room_id)
      st       == [w1.mem[room_id] EXCEPT
                     !.remaining = players, !.skipped = <<>>, !.current = None,
                     !.balances = [c \in captains |-> initial_points_of(auction_id)],
                     !.teams = [c \in captains |-> <<>>],
                     !.initialized = TRUE]
  IN  Return(save_auction_state([w1 EXCEPT !.mem[room_id] = st], room_id),
             Resp("reset", room_id, 200, ""))

undo_last_action(room_id, auction_id) ==
  \E w1 \in initialize_auction(World, room_id, auction_id) :
    LET backup_state == w1.backup[room_id] IN
    CASE backup_state.kind = "absent" ->
           Return(w1, Resp("undo", room_id, 404, "No previous state available to undo"))
      [] backup_state.kind = "notdict" ->
           Return(w1, Resp("undo", room_id, 400, "Invalid backup state format"))
      [] backup_state.kind = "dict" ->
           LET \* restore memory, then make the backup file the state file
               restored == [w1 EXCEPT !.mem[room_id] =
                              [Adopt(@, backup_state) EXCEPT !.initialized = TRUE]]
               w2 == [restored EXCEPT !.primary[room_id] = backup_state,
                                      !.backup[room_id] = NoFile]
           IN  IF w1.disk = "readonly"
               THEN \* os.remove / os.rename raise after memory was restored
                    Return(restored,
                           Resp("undo", room_id, 500, "Failed to restore backup state"))
               ELSE Return(save_auction_state(w2, room_id),
                           Resp("undo", room_id, 200, ""))
      [] OTHER ->
           Return(w1, Resp("undo", room_id, 500, "Failed to restore backup state"))

save_state(room_id) ==
  \E w1 \in initialize_auction(World, room_id, None) :
    IF w1.disk = "ok"
    THEN Return(save_auction_state(w1, room_id), Resp("save", room_id, 200, ""))
    ELSE Return(save_auction_state(w1, room_id),
                Resp("save", room_id, 500, "Failed to save state"))

get_status(room_id, auction_id) ==
  \E w1 \in initialize_auction(World, room_id, auction_id) :
    Return(w1, Resp("status", room_id, 200, ""))

load_state(room_id) ==
  LET ld == load_auction_state(World, room_id) IN
  IF ld.ok
  THEN \E w1 \in initialize_auction([ld.w EXCEPT !.mem[room_id].initialized = FALSE],
                                    room_id, None) :
         Return(w1, Resp("load", room_id, 200, ""))
  ELSE Return(ld.w, Resp("load", room_id, 404, "No saved state found or failed to load"))

\* the process stops and starts again: the dictionary is empty, the files stay
Restart ==
  /\ auction_states' = <<>>
  /\ response' = Resp("restart", None, 0, "")
  /\ UNCHANGED <<state_files, backup_files, players_yaml, threads, disk>>

(***************************************************************************)
(* create_room: a room name is a sequence of characters; the room           *)
(* identifier is made from it by strip, lower, replace and a filter.        *)
(***************************************************************************)
\* str.strip: leading and trailing blanks removed
RECURSIVE StripLeft(_)
StripLeft(name) ==
  IF name # <<>> /\ Head(name) = " " THEN StripLeft(Tail(name)) ELSE name

RECURSIVE StripRight(_)
StripRight(name) ==
  IF name # <<>> /\ name[Len(name)] = " "
  THEN StripRight(SubSeq(name, 1, Len(name) - 1)) ELSE name

Strip(name) == StripRight(StripLeft(name))

\* str.lower on the letters that the room names use
Lower(c) ==
  CASE c = "D" -> "d"
    [] c = "R" -> "r"
    [] OTHER -> c

\* str.isalnum on the characters that the room names use
IsAlnum(c) == c \in {"d", "e", "f", "a", "u", "l", "t", "r", "o", "m", "2"}

\* room_name.lower().replace(" ", "_").replace("-", "_"), then the filter
\* that keeps alphanumeric characters and underscores
RECURSIVE Sanitize(_)
Sanitize(name) ==
  IF name = <<>> THEN <<>>
  ELSE LET c == IF Lower(Head(name)) \in {" ", "-"} THEN "_" ELSE Lower(Head(name))
       IN  (IF IsAlnum(c) \/ c = "_" THEN <<c>> ELSE <<>>) \o Sanitize(Tail(name))

\* the identifier as the string that names the room elsewhere in the model
RoomIdString(chars) ==
  CASE chars = <<"d", "e", "f", "a", "u", "l", "t">> -> "default"
    [] chars = <<"r", "o", "o", "m", "_", "2">> -> "room_2"
    [] OTHER -> "unnamed"

\* str(uuid.uuid4())[:8]
GeneratedIds == {"3f2a9c1e"}

create_room(room_name) ==
  LET stripped == Strip(room_name)
      ids      == IF stripped = <<>> \/ Sanitize(stripped) = <<>>
                  THEN GeneratedIds
                  ELSE {RoomIdString(Sanitize(stripped))}
  IN  \E room_id \in ids :
        LET captains == Range(DEFAULT_CAPTAINS)
            w1       == get_room_state(World, room_id)
            st       == [w1.mem[room_id] EXCEPT
                           !.remaining = load_players(None), !.skipped = <<>>,
                           !.current = None,
                           !.balances = [c \in captains |-> INITIAL_POINTS],
                           !.teams = [c \in captains |-> <<>>],
                           !.initialized = TRUE]
        IN  Return(save_auction_state([w1 EXCEPT !.mem[room_id] = st], room_id),
                   Resp("create", room_id, 201, ""))

(***************************************************************************)
(* The environment of the process: the players file is edited, a state     *)
(* file is damaged, the snapshot directory stops or starts taking writes.  *)
(***************************************************************************)
\* the rosters an edit of the players file can produce: the configured names
\* in their order, any of them left out
Rosters ==
  LET full == SubSeq(AllNames, 1, NumPlayers)
  IN  {FilterList(full, keep) : keep \in SUBSET Range(full)}

EditRoster(roster) ==
  /\ roster # players_yaml[None]
  /\ players_yaml' = [players_yaml EXCEPT ![None] = roster]
  /\ response' = Resp("edit_roster", None, 0, "")
  /\ UNCHANGED <<auction_states, state_files, backup_files, threads, disk>>

\* what a damaged state file holds: text that is not JSON, or JSON that is
\* not an object
Damage == {Truncated, [kind |-> "notdict"]}

DamageStateFile(room_id, file) ==
  /\ state_files[room_id].kind = "dict"
  /\ state_files' = [state_files EXCEPT ![room_id] = file]
  /\ response' = Resp("damage", room_id, 0, "")
  /\ UNCHANGED <<auction_states, backup_files, players_yaml, threads, disk>>

SetDisk(condition) ==
  /\ condition # disk
  /\ disk' = condition
  /\ response' = Resp("disk", None, 0, "")
  /\ UNCHANGED <<auction_states, state_files, backup_files, players_yaml, threads>>

\* the process dies inside save_auction_state of a request on room_id, after
\* the state file was renamed to the backup and before the new file is
\* complete: the state file is missing (open not reached) or cut short, the
\* backup holds the snapshot of the previous save, and the memory is gone
CrashOutcomes == {NoFile, Truncated}

CrashInSave(room_id, written) ==
  /\ room_id \in DOMAIN auction_states
  /\ auction_states[room_id].initialized
  /\ state_files[room_id].kind = "dict"
  /\ backup_files' = [backup_files EXCEPT ![room_id] = state_files[room_id]]
  /\ state_files' = [state_files EXCEPT ![room_id] = written]
  /\ auction_states' = <<>>
  /\ response' = Resp("crash", room_id, 0, "")
  /\ UNCHANGED <<players_yaml, threads, disk>>

(***************************************************************************)
(* assign_player, statement by statement, in a request thread.  The        *)
(* handlers take no lock, so the steps of two threads interleave freely.   *)
(***************************************************************************)
Idle == [pc |-> "idle"]

\* a thread serves one request
Free(t) == threads[t].pc = "idle"

\* the thread's handler returns
Finish(t, status, error) ==
  /\ threads' = [threads EXCEPT ![t] =
                   [pc |-> "done", op |-> "assign", room_id |-> threads[t].room_id,
                    status |-> status, player |-> threads[t].current_player]]
  /\ response' = Resp("assign", threads[t].room_id, status, error)

Goto(t, pc) == threads' = [threads EXCEPT ![t].pc = pc]

SetRoom(room_id, st) == auction_states' = [auction_states EXCEPT ![room_id] = st]

AssignBegin(t, room_id, auction_id, captain, price) ==
  /\ Free(t)
  /\ \E w1 \in initialize_auction(World, room_id, auction_id) :
       /\ auction_states' = w1.mem
       /\ state_files' = w1.primary
       /\ backup_files' = w1.backup
  /\ threads' = [threads EXCEPT ![t] =
                   [pc |-> "read_current", room_id |-> room_id, auction_id |-> auction_id,
                    captain |-> captain, price |-> price, current_player |-> None,
                    old_balance |-> 0, tmp |-> 0]]
  /\ UNCHANGED <<players_yaml, response, disk>>

AssignReadCurrent(t) ==
  /\ threads[t].pc = "read_current"
  /\ threads' = [threads EXCEPT ![t].current_player = auction_states[threads[t].room_id].current,
                                ![t].pc = "validate"]
  /\ UNCHANGED <<auction_states, state_files, backup_files, players_yaml, response, disk>>

AssignValidate(t) ==
  LET L     == threads[t]
      check == AssignCheck(L.current_player, auction_states[L.room_id].balances,
                           L.auction_id, L.captain, L.price)
  IN  /\ L.pc = "validate"
      /\ IF check.status # 200
         THEN Finish(t, check.status, check.error)
         ELSE Goto(t, "old_balance") /\ UNCHANGED response
      /\ UNCHANGED <<auction_states, state_files, backup_files, players_yaml, disk>>

AssignOldBalance(t) ==
  LET L == threads[t] IN
  /\ L.pc = "old_balance"
  /\ threads' = [threads EXCEPT ![t].old_balance = auction_states[L.room_id].balances[L.captain],
                                ![t].pc = "sub_read"]
  /\ UNCHANGED <<auction_states, state_files, backup_files, players_yaml, response, disk>>

\* balances[captain] -= price is a read followed by a write
AssignSubRead(t) ==
  LET L == threads[t] IN
  /\ L.pc = "sub_read"
  /\ threads' = [threads EXCEPT ![t].tmp = auction_states[L.room_id].balances[L.captain],
                                ![t].pc = "sub_write"]
  /\ UNCHANGED <<auction_states, state_files, backup_files, players_yaml, response, disk>>

AssignSubWrite(t) ==
  LET L == threads[t] IN
  /\ L.pc = "sub_write"
  /\ SetRoom(L.room_id, [auction_states[L.room_id] EXCEPT !.balances[L.captain] = L.tmp - L.price])
  /\ Goto(t, "append")
  /\ UNCHANGED <<state_files, backup_files, players_yaml, response, disk>>

AssignAppend(t) ==
  LET L == threads[t] IN
  /\ L.pc = "append"
  /\ SetRoom(L.room_id, [auction_states[L.room_id] EXCEPT
                           !.teams[L.captain] = Append(@, [player |-> L.current_player,
                                                           price |-> L.price])])
  /\ Goto(t, "last_assignment")
  /\ UNCHANGED <<state_files, backup_files, players_yaml, response, disk>>

AssignLastAssignment(t) ==
  LET L  == threads[t]
      st == auction_states[L.room_id]
  IN  /\ L.pc = "last_assignment"
      /\ SetRoom(L.room_id, [st EXCEPT !.last_assignment =
                               [player |-> L.current_player, captain |-> L.captain,
                                price |-> L.price, old_balance |-> L.old_balance,
                                new_balance |-> st.balances[L.captain]]])
      /\ Goto(t, "remove_check")
      /\ UNCHANGED <<state_files, backup_files, players_yaml, response, disk>>

AssignRemoveCheck(t) ==
  LET L == threads[t] IN
  /\ L.pc = "remove_check"
  /\ Goto(t, IF In(L.current_player, auction_states[L.room_id].remaining)
             THEN "remove" ELSE "clear")
  /\ UNCHANGED <<auction_states, state_files, backup_files, players_yaml, response, disk>>

\* list.remove raises ValueError when the other thread removed the name first
AssignRemove(t) ==
  LET L  == threads[t]
      st == auction_states[L.room_id]
  IN  /\ L.pc = "remove"
      /\ IF In(L.current_player, st.remaining)
         THEN /\ SetRoom(L.room_id, [st EXCEPT !.remaining = ListRemove(@, L.current_player)])
              /\ Goto(t, "clear")
              /\ UNCHANGED response
         ELSE /\ Finish(t, 500, "Failed to assign player")
              /\ UNCHANGED auction_states
      /\ UNCHANGED <<state_files, backup_files, players_yaml, disk>>

AssignClear(t) ==
  LET L == threads[t] IN
  /\ L.pc = "clear"
  /\ SetRoom(L.room_id, [auction_states[L.room_id] EXCEPT !.current = None])
  /\ Goto(t, "recycle")
  /\ UNCHANGED <<state_files, backup_files, players_yaml, response, disk>>

AssignRecycle(t) ==
  LET L == threads[t] IN
  /\ L.pc = "recycle"
  /\ \E rec \in Recycled(auction_states[L.room_id]) : SetRoom(L.room_id, rec)
  /\ Goto(t, "save")
  /\ UNCHANGED <<state_files, backup_files, players_yaml, response, disk>>

AssignSave(t) ==
  LET L == threads[t]
      w == save_auction_state(World, L.room_id)
  IN  /\ L.pc = "save"
      /\ auction_states' = w.mem
      /\ state_files' = w.primary
      /\ backup_files' = w.backup
      /\ Finish(t, 200, "")
      /\ UNCHANGED <<players_yaml, disk>>

AssignStep(t) ==
  \/ AssignReadCurrent(t)
  \/ AssignValidate(t)
  \/ AssignOldBalance(t)
  \/ AssignSubRead(t)
  \/ AssignSubWrite(t)
  \/ AssignAppend(t)
  \/ AssignLastAssignment(t)
  \/ AssignRemoveCheck(t)
  \/ AssignRemove(t)
  \/ AssignClear(t)
  \/ AssignRecycle(t)
  \/ AssignSave(t)

(***************************************************************************)
(* pick_player and skip_player in a request thread: the statements up to   *)
(* time.sleep, and the statements after it.  No lock is held in between.   *)
(***************************************************************************)
\* the thread's pick or skip handler returns
Done(t, op, room_id, status, error) ==
  /\ threads' = [threads EXCEPT ![t] =
                   [pc |-> "done", op |-> op, room_id |-> room_id, status |-> status]]
  /\ response' = Resp(op, room_id, status, error)

Install(w) ==
  /\ auction_states' = w.mem
  /\ state_files' = w.primary
  /\ backup_files' = w.backup

\* pick_player up to the delay
PickBegin(t, room_id) ==
  /\ Free(t)
  /\ \E w1 \in initialize_auction(World, room_id, None) :
       LET st == w1.mem[room_id] IN
       IF st.current # None
       THEN Install(w1) /\ Done(t, "pick", room_id, 400, "A player is already selected")
       ELSE \E rec \in Recycled(st) :
              /\ Install([w1 EXCEPT !.mem[room_id] = rec])
              /\ IF rec.remaining = <<>>
                 THEN Done(t, "pick", room_id, 400, "No players left in the pool")
                 ELSE /\ threads' = [threads EXCEPT ![t] =
                                      [pc |-> "pick_sleep", op |-> "pick", room_id |-> room_id]]
                      /\ UNCHANGED response
  /\ UNCHANGED <<players_yaml, disk>>

\* pick_player after the delay; random.choice raises on an empty list
PickChoose(t) ==
  LET L  == threads[t]
      st == auction_states[L.room_id]
  IN  /\ L.pc = "pick_sleep"
      /\ IF st.remaining = <<>>
         THEN /\ Done(t, "pick", L.room_id, 500, "Failed to pick player")
              /\ UNCHANGED <<auction_states, state_files, backup_files>>
         ELSE \E p \in Range(st.remaining) :
                /\ Install(save_auction_state(
                             [World EXCEPT !.mem[L.room_id] = [st EXCEPT !.current = p]],
                             L.room_id))
                /\ Done(t, "pick", L.room_id, 200, "")
      /\ UNCHANGED <<players_yaml, disk>>

\* skip_player up to the delay, or to its end when nobody is left to draw
SkipBegin(t, room_id) ==
  /\ Free(t)
  /\ \E w1 \in initialize_auction(World, room_id, None) :
       LET st == w1.mem[room_id] IN
       IF st.current = None
       THEN Install(w1) /\ Done(t, "skip", room_id, 400, "No player selected")
       ELSE LET cur == st.current
                st1 == [st EXCEPT !.remaining = ListRemove(@, cur),
                                  !.skipped = IF In(cur, @) THEN @ ELSE Append(@, cur)]
            IN  \E rec \in Recycled(st1) :
                  IF rec.remaining # <<>>
                  THEN /\ Install([w1 EXCEPT !.mem[room_id] = rec])
                       /\ threads' = [threads EXCEPT ![t] =
                                       [pc |-> "skip_sleep", op |-> "skip", room_id |-> room_id]]
                       /\ UNCHANGED response
                  ELSE /\ Install(save_auction_state(
                                    [w1 EXCEPT !.mem[room_id] = [rec EXCEPT !.current = None]],
                                    room_id))
                       /\ Done(t, "skip", room_id, 200, "")
  /\ UNCHANGED <<players_yaml, disk>>

\* skip_player after the delay
SkipChoose(t) ==
  LET L  == threads[t]
      st == auction_states[L.room_id]
  IN  /\ L.pc = "skip_sleep"
      /\ IF st.remaining = <<>>
         THEN /\ Done(t, "skip", L.room_id, 500, "Failed to skip player")
              /\ UNCHANGED <<auction_states, state_files, backup_files>>
         ELSE \E p \in Range(st.remaining) :
                /\ Install(save_auction_state(
                             [World EXCEPT !.mem[L.room_id] = [st EXCEPT !.current = p]],
                             L.room_id))
                /\ Done(t, "skip", L.room_id, 200, "")
      /\ UNCHANGED <<players_yaml, disk>>

(***************************************************************************)
(* Specifications                                                          *)
(***************************************************************************)
Init ==
  /\ auction_states = <<>>
  /\ state_files = [r \in RoomIds |-> NoFile]
  /\ backup_files = [r \in RoomIds |-> NoFile]
  /\ players_yaml = (None :> SubSeq(AllNames, 1, NumPlayers))
  /\ response = Resp("none", None, 0, "")
  /\ threads = [t \in Threads |-> Idle]
  /\ disk = "ok"

\* one request at a time, the process never stops
Next ==
  \E room_id \in RoomIds, auction_id \in AuctionInputs :
    \/ pick_player(room_id)
    \/ skip_player(room_id)
    \/ \E captain \in CaptainInputs, price \in PriceInputs :
         assign_player(room_id, auction_id, captain, price)
    \/ reset_auction(room_id, auction_id)
    \/ undo_last_action(room_id, auction_id)

Spec == Init /\ [][Next]_vars

\* one request at a time, with restarts and the manual save / load requests
NextRecovery ==
  \/ Next
  \/ Restart
  \/ \E room_id \in RoomIds : save_state(room_id)
  \/ \E room_id \in RoomIds : load_state(room_id)

SpecRecovery == Init /\ [][NextRecovery]_vars

\* assign requests served by concurrent threads; pick requests are served in
\* between
NextConcurrent ==
  \/ \E room_id \in RoomIds : pick_player(room_id)
  \/ \E t \in Threads, room_id \in RoomIds, auction_id \in AuctionInputs,
        captain \in ConcurrentCaptains, price \in ConcurrentPrices :
       AssignBegin(t, room_id, auction_id, captain, price)
  \/ \E t \in Threads : AssignStep(t)

SpecConcurrent == Init /\ [][NextConcurrent]_vars

\* one request at a time while the players file is edited between requests
NextRoster ==
  \/ \E room_id \in RoomIds : pick_player(room_id)
  \/ \E room_id \in RoomIds : skip_player(room_id)
  \/ \E room_id \in RoomIds, auction_id \in AuctionInputs,
        captain \in RosterCaptains, price \in RosterPrices :
       assign_player(room_id, auction_id, captain, price)
  \/ \E room_id \in RoomIds : save_state(room_id)
  \/ \E roster \in Rosters : EditRoster(roster)

SpecRoster == Init /\ [][NextRoster]_vars

\* requests and restarts: rooms are bootstrapped from nothing and from
\* snapshots
NextBootstrap ==
  \/ \E room_id \in RoomIds, auction_id \in AuctionInputs : get_status(room_id, auction_id)
  \/ \E room_id \in RoomIds : pick_player(room_id)
  \/ \E room_id \in RoomIds : skip_player(room_id)
  \/ \E room_id \in RoomIds, auction_id \in AuctionInputs,
        captain \in RosterCaptains, price \in BootstrapPrices :
       assign_player(room_id, auction_id, captain, price)
  \/ Restart

SpecBootstrap == Init /\ [][NextBootstrap]_vars

\* two rooms: requests on either room in any order
InitRooms ==
  /\ auction_states = <<>>
  /\ state_files = [r \in TwoRooms |-> NoFile]
  /\ backup_files = [r \in TwoRooms |-> NoFile]
  /\ players_yaml = (None :> SubSeq(AllNames, 1, NumPlayers))
  /\ response = Resp("none", None, 0, "")
  /\ threads = [t \in Threads |-> Idle]
  /\ disk = "ok"

NextRooms ==
  \/ \E room_id \in TwoRooms : pick_player(room_id)
  \/ \E room_id \in TwoRooms : skip_player(room_id)
  \/ \E room_id \in TwoRooms, auction_id \in AuctionInputs,
        captain \in RosterCaptains, price \in BootstrapPrices :
       assign_player(room_id, auction_id, captain, price)
  \/ \E room_id \in TwoRooms, auction_id \in AuctionInputs :
       undo_last_action(room_id, auction_id)

SpecRooms == InitRooms /\ [][NextRooms]_vars

\* the same with reset requests
NextRosterReset ==
  \/ NextRoster
  \/ \E room_id \in RoomIds, auction_id \in AuctionInputs :
       reset_auction(room_id, auction_id)

SpecRosterReset == Init /\ [][NextRosterReset]_vars

\* one request at a time, with restarts, status requests and damage to the
\* state file
NextDamage ==
  \/ Next
  \/ Restart
  \/ \E room_id \in RoomIds, auction_id \in AuctionInputs : get_status(room_id, auction_id)
  \/ \E room_id \in RoomIds, file \in Damage : DamageStateFile(room_id, file)

SpecDamage == Init /\ [][NextDamage]_vars

\* one request at a time; the process may die inside a save and start again
NextCrash ==
  \/ \E room_id \in RoomIds, auction_id \in AuctionInputs :
       \/ get_status(room_id, auction_id)
       \/ pick_player(room_id)
       \/ skip_player(room_id)
       \/ \E captain \in RosterCaptains, price \in BootstrapPrices :
            assign_player(room_id, auction_id, captain, price)
  \/ \E room_id \in RoomIds, written \in CrashOutcomes : CrashInSave(room_id, written)

SpecCrash == Init /\ [][NextCrash]_vars

\* one request at a time with an unchanged roster, every assign accepted
\* while the balance lasts
NextHistory ==
  \/ \E room_id \in RoomIds : pick_player(room_id)
  \/ \E room_id \in RoomIds : skip_player(room_id)
  \/ \E room_id \in RoomIds, auction_id \in AuctionInputs,
        captain \in RosterCaptains, price \in RosterPrices :
       assign_player(room_id, auction_id, captain, price)
  \/ \E room_id \in RoomIds, auction_id \in AuctionInputs :
       reset_auction(room_id, auction_id)
  \/ \E room_id \in RoomIds, auction_id \in AuctionInputs :
       undo_last_action(room_id, auction_id)

SpecHistory == Init /\ [][NextHistory]_vars

\* a room that serves the auction with its own players file: the default
\* players file names the first player only, the auction's file all of them
InitAuction ==
  /\ auction_states = <<>>
  /\ state_files = [r \in RoomIds |-> NoFile]
  /\ backup_files = [r \in RoomIds |-> NoFile]
  /\ players_yaml = (None :> SubSeq(AllNames, 1, 1))
                      @@ (SummerCup :> SubSeq(AllNames, 1, NumPlayers))
  /\ response = Resp("none", None, 0, "")
  /\ threads = [t \in Threads |-> Idle]
  /\ disk = "ok"

NextAuction ==
  \/ \E room_id \in RoomIds : get_status(room_id, SummerCup)
  \/ \E room_id \in RoomIds : pick_player(room_id)
  \/ \E room_id \in RoomIds : skip_player(room_id)
  \/ \E room_id \in RoomIds, captain \in AuctionCaptains, price \in RosterPrices :
       assign_player(room_id, SummerCup, captain, price)
  \/ \E room_id \in RoomIds : reset_auction(room_id, SummerCup)
  \/ \E room_id \in RoomIds : undo_last_action(room_id, SummerCup)

SpecAuction == InitAuction /\ [][NextAuction]_vars

\* a roster with one player more, and only pick, skip and assign requests
InitLongRoster ==
  /\ auction_states = <<>>
  /\ state_files = [r \in RoomIds |-> NoFile]
  /\ backup_files = [r \in RoomIds |-> NoFile]
  /\ players_yaml = (None :> SubSeq(AllNames, 1, NumPlayers + 1))
  /\ response = Resp("none", None, 0, "")
  /\ threads = [t \in Threads |-> Idle]
  /\ disk = "ok"

NextSkips ==
  \/ \E room_id \in RoomIds : pick_player(room_id)
  \/ \E room_id \in RoomIds : skip_player(room_id)
  \/ \E room_id \in RoomIds, auction_id \in AuctionInputs,
        captain \in RosterCaptains, price \in RosterPrices :
       assign_player(room_id, auction_id, captain, price)

SpecSkips == InitLongRoster /\ [][NextSkips]_vars

\* two named rooms are served while rooms are created
InitCreate ==
  /\ auction_states = <<>>
  /\ state_files = [r \in CreateRooms \cup GeneratedIds |-> NoFile]
  /\ backup_files = [r \in CreateRooms \cup GeneratedIds |-> NoFile]
  /\ players_yaml = (None :> SubSeq(AllNames, 1, NumPlayers))
  /\ response = Resp("none", None, 0, "")
  /\ threads = [t \in Threads |-> Idle]
  /\ disk = "ok"

NextCreate ==
  \/ \E room_id \in CreateRooms : pick_player(room_id)
  \/ \E room_id \in CreateRooms : skip_player(room_id)
  \/ \E room_id \in CreateRooms, auction_id \in AuctionInputs,
        captain \in RosterCaptains, price \in BootstrapPrices :
       assign_player(room_id, auction_id, captain, price)
  \/ \E room_name \in RoomNames : create_room(room_name)

SpecCreate == InitCreate /\ [][NextCreate]_vars

\* pick and skip requests in threads that sleep inside the handler; assign
\* requests are served in between
NextDelay ==
  \/ \E t \in Threads, room_id \in RoomIds : PickBegin(t, room_id)
  \/ \E t \in Threads : PickChoose(t)
  \/ \E t \in Threads, room_id \in RoomIds : SkipBegin(t, room_id)
  \/ \E t \in Threads : SkipChoose(t)
  \/ \E room_id \in RoomIds, auction_id \in AuctionInputs,
        captain \in RosterCaptains, price \in BootstrapPrices :
       assign_player(room_id, auction_id, captain, price)

SpecDelay == Init /\ [][NextDelay]_vars

\* one request at a time; at some point the snapshot directory stops taking
\* writes
NextDiskFailure ==
  \/ \E room_id \in RoomIds : pick_player(room_id)
  \/ \E room_id \in RoomIds : skip_player(room_id)
  \/ \E room_id \in RoomIds, auction_id \in AuctionInputs,
        captain \in RosterCaptains, price \in RosterPrices :
       assign_player(room_id, auction_id, captain, price)
  \/ \E room_id \in RoomIds, auction_id \in AuctionInputs :
       reset_auction(room_id, auction_id)
  \/ \E condition \in DiskConditions : disk = "ok" /\ SetDisk(condition)

SpecDiskFailure == Init /\ [][NextDiskFailure]_vars

(***************************************************************************)
(* Properties                                                              *)
(***************************************************************************)
Rooms == DOMAIN auction_states

Initialized(r) == r \in Rooms /\ auction_states[r].initialized

Roster == Range(load_players(None))

Count(s, x) == Cardinality({i \in DOMAIN s : s[i] = x})

\* number of team entries, over all captains, that name player p
TeamEntries(st, p) ==
  SumOver([c \in DOMAIN st.teams |-> Count([i \in DOMAIN st.teams[c] |-> st.teams[c][i].player], p)],
          DOMAIN st.teams)

PricesPaid(st) ==
  SumOver([c \in DOMAIN st.teams |-> SumSeq([i \in DOMAIN st.teams[c] |-> st.teams[c][i].price])],
          DOMAIN st.teams)

TotalBalance(st) == SumOver(st.balances, DOMAIN st.balances)

\* C1: with restarts and manual loads included, no player is named by more
\* than one team entry of a room.
NoDoubleAssignment ==
  \A r \in Rooms : \A p \in Roster : TeamEntries(auction_states[r], p) <= 1

\* C2: on an initialised room every roster player is in exactly one of
\* remaining, skipped, the current slot and the team rosters.
PartitionWithCurrent ==
  \A r \in RoomIds : Initialized(r) =>
    \A p \in Roster :
      LET st == auction_states[r] IN
      Count(st.remaining, p) + Count(st.skipped, p) + TeamEntries(st, p)
        + (IF st.current = p THEN 1 ELSE 0) = 1

\* C2 as amended: every roster player is exactly once in remaining, skipped
\* and the team rosters taken together, and a player on the block is one of
\* the remaining players.
PartitionCurrentInRemaining ==
  \A r \in RoomIds : Initialized(r) =>
    LET st == auction_states[r] IN
    /\ \A p \in Roster :
         Count(st.remaining, p) + Count(st.skipped, p) + TeamEntries(st, p) = 1
    /\ st.current # None => In(st.current, st.remaining)
    /\ Range(st.remaining) \cup Range(st.skipped) \subseteq Roster

\* a skip has just put one player in skipped and another on the block
PartitionWitness ==
  \E r \in Rooms :
    LET st == auction_states[r] IN
    /\ st.initialized /\ st.current # None
    /\ st.skipped # <<>>
    /\ response.op = "skip"

\* C3: on an initialised room the balances plus the prices paid add up to
\* initial_points times the number of captains.
Conservation ==
  \A r \in RoomIds : Initialized(r) =>
    TotalBalance(auction_states[r]) + PricesPaid(auction_states[r])
      = INITIAL_POINTS * Len(DEFAULT_CAPTAINS)

\* an undo has just brought back a state in which points were paid
ConservationWitness ==
  \E r \in Rooms :
    /\ auction_states[r].initialized
    /\ PricesPaid(auction_states[r]) >= 150 + DEFAULT_MIN_PRICE
    /\ response.op = "undo" /\ response.status = 200

\* the step leaves the memory and both files of every room as they were
NothingChanged ==
  /\ auction_states' = auction_states
  /\ state_files' = state_files
  /\ backup_files' = backup_files

Rejected(op, status, error) ==
  /\ response'.op = op /\ response'.status = status /\ response'.error = error
  /\ NothingChanged

\* C4: the price of a successful assign is at least the minimum price and at
\* most the buying captain's balance before the call, the entry it appends
\* carries that price, and no balance of an initialised room is negative.
PriceWithinBalance ==
  /\ [](\A r \in RoomIds : Initialized(r) =>
          LET st == auction_states[r] IN
          /\ \A c \in DOMAIN st.balances : st.balances[c] >= 0
          /\ \A c \in DOMAIN st.teams : \A i \in DOMAIN st.teams[c] :
               st.teams[c][i].price >= DEFAULT_MIN_PRICE)
  /\ [][\A r \in RoomIds, c \in CaptainInputs, p \in PriceInputs :
          (response'.op = "assign" /\ response'.status = 200
             /\ assign_player(r, None, c, p)) =>
            LET team == auction_states'[r].teams[c] IN
            /\ p >= DEFAULT_MIN_PRICE
            /\ p <= auction_states[r].balances[c]
            /\ Len(team) = Len(auction_states[r].teams[c]) + 1
            /\ team[Len(team)].price = p]_vars

\* a captain has spent the whole of what two assignments can take
PriceWithinBalanceWitness ==
  \E r \in Rooms :
    /\ auction_states[r].initialized
    /\ \E c \in DOMAIN auction_states[r].balances :
         /\ auction_states[r].balances[c] = INITIAL_POINTS - 150 - DEFAULT_MIN_PRICE
         /\ Len(auction_states[r].teams[c]) = 2

\* C5: of two concurrent assign requests at most one succeeds for a player:
\* no two threads return success for the same player, the player is named by
\* at most one team entry, and once both have returned one price is gone.
TwoThreadsSucceeded ==
  \E t1, t2 \in Threads :
    /\ t1 # t2
    /\ threads[t1].pc = "done" /\ threads[t2].pc = "done"
    /\ threads[t1].status = 200 /\ threads[t2].status = 200
    /\ threads[t1].room_id = threads[t2].room_id
    /\ threads[t1].player = threads[t2].player

ConcurrentAssignOnce ==
  /\ ~TwoThreadsSucceeded
  /\ \A r \in Rooms : \A p \in Roster : TeamEntries(auction_states[r], p) <= 1
  /\ \A r \in Rooms :
       (auction_states[r].initialized /\ \A t \in Threads : threads[t].pc \in {"idle", "done"})
         => TotalBalance(auction_states[r]) + PricesPaid(auction_states[r])
              = INITIAL_POINTS * Len(DEFAULT_CAPTAINS)

\* C6: a successful assign of the player on the block takes the price from
\* the captain's balance only, appends the entry at the end of that captain's
\* team only, takes the player out of remaining, records last_assignment and
\* leaves current empty.
AssignEffect ==
  [][\A r \in RoomIds, c \in CaptainInputs, p \in PriceInputs :
       (/\ Initialized(r)
        /\ response'.op = "assign" /\ response'.status = 200
        /\ assign_player(r, None, c, p)) =>
         LET st  == auction_states[r]
             st2 == auction_states'[r]
             X   == st.current
         IN  /\ X # None
             /\ st2.balances = [st.balances EXCEPT ![c] = @ - p]
             /\ st2.teams = [st.teams EXCEPT ![c] = Append(@, [player |-> X, price |-> p])]
             /\ ~In(X, st2.remaining)
             /\ st2.last_assignment =
                  [player |-> X, captain |-> c, price |-> p,
                   old_balance |-> st.balances[c], new_balance |-> st.balances[c] - p]
             /\ st2.current = None]_vars

\* an assign has just succeeded and left other players to pick
AssignEffectWitness ==
  \E r \in Rooms :
    /\ response.op = "assign" /\ response.status = 200 /\ response.room_id = r
    /\ auction_states[r].last_assignment # NoAssignment
    /\ auction_states[r].remaining # <<>>

\* C7: with a player on the block, a configured captain and a price of at
\* least the minimum, an assign whose price exceeds the captain's balance
\* returns "Not enough balance" and changes nothing.
InsufficientBalanceRejected ==
  [][\A r \in RoomIds, c \in CaptainInputs, p \in PriceInputs :
       (/\ Initialized(r)
        /\ auction_states[r].current # None
        /\ c \in Range(DEFAULT_CAPTAINS)
        /\ p >= DEFAULT_MIN_PRICE
        /\ p > auction_states[r].balances[c]
        /\ response'.op = "assign"
        /\ assign_player(r, None, c, p))
       => Rejected("assign", 400, "Not enough balance")]_vars

InsufficientBalanceWitness ==
  /\ response.op = "assign" /\ response.error = "Not enough balance"
  /\ \E r \in Rooms : auction_states[r].current # None

\* C8: with a player on the block and a configured captain, an assign whose
\* price is below the minimum price returns the minimum-price error and
\* changes nothing, whatever the captain's balance is.
BelowMinimumRejected ==
  [][\A r \in RoomIds, c \in CaptainInputs, p \in PriceInputs :
       (/\ Initialized(r)
        /\ auction_states[r].current # None
        /\ c \in Range(DEFAULT_CAPTAINS)
        /\ p < DEFAULT_MIN_PRICE
        /\ response'.op = "assign"
        /\ assign_player(r, None, c, p))
       => Rejected("assign", 400, "Minimum price")]_vars

\* the rejection has happened for a captain who has already bought a player
BelowMinimumWitness ==
  /\ response.op = "assign" /\ response.error = "Minimum price"
  /\ \E r \in Rooms :
       /\ auction_states[r].current # None
       /\ \E c \in DOMAIN auction_states[r].balances :
            auction_states[r].balances[c] < INITIAL_POINTS

\* C9: a pick while a player is on the block returns "A player is already
\* selected" and changes nothing (no recycle, no save).
PickWhileSelectedRejected ==
  [][\A r \in RoomIds :
       (Initialized(r) /\ auction_states[r].current # None
        /\ response'.op = "pick" /\ pick_player(r))
       => Rejected("pick", 400, "A player is already selected")]_vars

PickWhileSelectedWitness ==
  /\ response.op = "pick" /\ response.error = "A player is already selected"
  /\ \E r \in Rooms : auction_states[r].current # None /\ auction_states[r].skipped # <<>>

\* C10: a skip, or an assign with any captain and price, while no player is
\* on the block returns "No player selected" and changes nothing.
NoSelectionRejected ==
  [][\A r \in RoomIds :
       (Initialized(r) /\ auction_states[r].current = None) =>
         /\ (response'.op = "skip" /\ skip_player(r))
              => Rejected("skip", 400, "No player selected")
         /\ \A c \in CaptainInputs, p \in PriceInputs :
              (response'.op = "assign" /\ assign_player(r, None, c, p))
                => Rejected("assign", 400, "No player selected")]_vars

NoSelectionWitness ==
  /\ response.error = "No player selected"
  /\ \E r \in Rooms : auction_states[r].current = None /\ auction_states[r].initialized

SkipMovesCurrent ==
  [][\A r \in RoomIds :
       (/\ Initialized(r)
        /\ auction_states[r].current # None
        /\ \E q \in Range(auction_states[r].remaining) :
             q # auction_states[r].current /\ TeamEntries(auction_states[r], q) = 0
        /\ response'.op = "skip"
        /\ skip_player(r))
       => LET X   == auction_states[r].current
              st1 == auction_states'[r]
          IN  /\ response'.status = 200
              /\ ~In(X, st1.remaining)
              /\ Count(st1.skipped, X) = 1
              /\ st1.current # None /\ st1.current # X
              /\ In(st1.current, st1.remaining)]_vars

\* a skip took place while another player was left in remaining: the skipped
\* list is not empty (no recycle), the new player on the block is in remaining
\* and not in skipped
SkipMovesCurrentWitness ==
  \E r \in Rooms :
    LET st == auction_states[r] IN
    /\ response.op = "skip" /\ response.status = 200
    /\ st.initialized /\ st.skipped # <<>>
    /\ In(st.current, st.remaining) /\ ~In(st.current, st.skipped)

AllAssigned(st) == \A p \in Roster : TeamEntries(st, p) >= 1

NumEntries(st) == SumOver([c \in DOMAIN st.teams |-> Len(st.teams[c])], DOMAIN st.teams)

\* C14: on a room bootstrapped from nothing with a fixed roster, every
\* successful pick puts a player without team entry on the block and every
\* successful assign adds one team entry; once every roster player has an
\* entry (after N successful assigns), remaining and skipped are empty, every
\* player has exactly one entry, and a pick is refused with "No players left
\* in the pool"; at all times every captain's balance is initial_points minus
\* the prices of the captain's team entries.
AuctionTerminates ==
  /\ [](\A r \in RoomIds : Initialized(r) =>
          LET st == auction_states[r] IN
          /\ \A c \in DOMAIN st.balances :
               st.balances[c] = INITIAL_POINTS
                 - SumSeq([i \in DOMAIN st.teams[c] |-> st.teams[c][i].price])
          /\ AllAssigned(st) =>
               /\ st.remaining = <<>> /\ st.skipped = <<>> /\ st.current = None
               /\ \A p \in Roster : TeamEntries(st, p) = 1
               /\ NumEntries(st) = Cardinality(Roster))
  /\ [][\A r \in RoomIds :
          (/\ Initialized(r)
           /\ response'.op = "pick" /\ response'.status = 200
           /\ pick_player(r))
          => /\ auction_states'[r].current \in Roster
             /\ TeamEntries(auction_states'[r], auction_states'[r].current) = 0]_vars
  /\ [][\A r \in RoomIds :
          (/\ Initialized(r)
           /\ response'.op = "assign" /\ response'.status = 200
           /\ \E c \in CaptainInputs, p \in PriceInputs : assign_player(r, None, c, p))
          => NumEntries(auction_states'[r]) = NumEntries(auction_states[r]) + 1]_vars
  /\ [][\A r \in RoomIds :
          (/\ Initialized(r) /\ AllAssigned(auction_states[r])
           /\ response'.op = "pick"
           /\ pick_player(r))
          => Rejected("pick", 400, "No players left in the pool")]_vars

\* the auction is over: as many team entries as roster players, the last
\* assignment is recorded, and the pick that followed was refused
AuctionTerminatesWitness ==
  \E r \in Rooms :
    LET st == auction_states[r] IN
    /\ st.initialized /\ AllAssigned(st)
    /\ NumEntries(st) = NumPlayers
    /\ st.last_assignment # NoAssignment
    /\ PricesPaid(st) >= NumPlayers * DEFAULT_MIN_PRICE
    /\ response.op = "pick" /\ response.status = 400

MutatingOps == {"pick", "skip", "assign", "reset"}

\* C15: on an initialised room a successful pick, skip, assign or reset
\* leaves the snapshot of the state before it in the backup file, and an undo
\* that directly follows such an operation and finds its backup succeeds and
\* sets remaining, current, balances, teams, skipped and last_assignment to
\* the values of that snapshot, i.e. to the values they had before the
\* operation.
UndoRestoresPrevious ==
  /\ [][\A r \in RoomIds :
          (/\ Initialized(r)
           /\ response'.op \in MutatingOps /\ response'.status = 200)
          => backup_files'[r] = Snapshot(auction_states[r])]_vars
  /\ [][\A r \in RoomIds :
          (/\ Initialized(r)
           /\ response.op \in MutatingOps /\ response.status = 200
           /\ backup_files[r].kind = "dict"
           /\ response'.op = "undo"
           /\ undo_last_action(r, None))
          => /\ response'.status = 200
             /\ Snapshot(auction_states'[r]) = backup_files[r]]_vars

\* an undo has put a player back on the block (it took back a skip or an
\* assign) and the memory is what both files hold
UndoRestoresPreviousWitness ==
  \E r \in Rooms :
    LET st == auction_states[r] IN
    /\ response.op = "undo" /\ response.status = 200
    /\ st.initialized /\ st.current # None
    /\ state_files[r] = Snapshot(st)

\* C16: a successful undo on an initialised room leaves the snapshot of the
\* state before it in the backup file, and an undo that directly follows a
\* successful undo restores the six fields from that backup, so that two
\* undos in a row end in the state before the first one.
UndoOfUndoIsRedo ==
  /\ [][\A r \in RoomIds :
          (/\ Initialized(r)
           /\ response'.op = "undo" /\ response'.status = 200)
          => backup_files'[r] = Snapshot(auction_states[r])]_vars
  /\ [][\A r \in RoomIds :
          (/\ Initialized(r)
           /\ response.op = "undo" /\ response.status = 200
           /\ response'.op = "undo"
           /\ undo_last_action(r, None))
          => /\ response'.status = 200
             /\ Snapshot(auction_states'[r]) = backup_files[r]]_vars

\* C17: an undo on a room without backup file returns 404 "No previous state
\* available to undo"; on an initialised room it leaves the memory and both
\* files as they were.
UndoWithoutBackupFails ==
  [][\A r \in RoomIds :
       (/\ backup_files[r].kind = "absent"
        /\ response'.op = "undo"
        /\ undo_last_action(r, None))
       => /\ response'.status = 404
          /\ response'.error = "No previous state available to undo"
          /\ Initialized(r) => NothingChanged]_vars

\* C18: every successful request that saves (pick, skip, assign, reset, undo)
\* and finds a state file leaves in the backup file what the state file held
\* before the request, and in the state file the snapshot of the memory: the
\* backup holds the state as of the previous save.
BackupHoldsPreviousSave ==
  [][\A r \in RoomIds :
       (/\ state_files[r].kind = "dict"
        /\ response'.op \in MutatingOps \cup {"undo"} /\ response'.status = 200)
       => /\ backup_files'[r] = state_files[r]
          /\ state_files'[r] = Snapshot(auction_states'[r])]_vars

\* C19: when a room that is not in memory is bootstrapped while its state
\* file exists but is not a well-formed snapshot (not JSON, or JSON that is not
\* an object) and its backup file is well-formed, the room gets the backup's
\* balances, teams, skipped list, current player and last assignment, and
\* every player of the backup's remaining list.
CorruptPrimaryAdoptsBackup ==
  [][\A r \in RoomIds :
       (/\ ~Initialized(r)
        /\ state_files[r] \in Damage
        /\ backup_files[r].kind = "dict"
        /\ response'.op = "status"
        /\ get_status(r, None))
       => LET bak == backup_files[r]
              st1 == auction_states'[r]
          IN  /\ st1.balances = bak.balances
              /\ st1.teams = bak.teams
              /\ st1.skipped = bak.skipped
              /\ st1.current = bak.current
              /\ st1.last_assignment = bak.last_assignment
              /\ Range(bak.remaining) \subseteq Range(st1.remaining)]_vars

\* C20: while the snapshot directory does not take writes, a pick, skip,
\* assign or reset on an initialised room that passes its checks still returns
\* 200 and keeps its change of the memory: the pick puts a member of remaining
\* on the block, the skip moves the current player from remaining to skipped
\* when another player is left, the assign appends the team entry, takes the
\* price from the balance and clears the block, the reset rebuilds the pool.
SaveFailureKeepsMutation ==
  [][\A r \in RoomIds :
       (Initialized(r) /\ disk # "ok" /\ response'.op \in MutatingOps) =>
         LET st  == auction_states[r]
             st1 == auction_states'[r]
         IN  /\ (/\ response'.op = "pick"
                  /\ st.current = None /\ st.remaining # <<>>)
                 => /\ response'.status = 200
                    /\ In(st1.current, st.remaining)
             /\ (/\ response'.op = "skip"
                  /\ st.current # None)
                 => /\ response'.status = 200
                    /\ (\E q \in Range(st.remaining) : q # st.current)
                         => (~In(st.current, st1.remaining) /\ In(st.current, st1.skipped))
             /\ \A c \in RosterCaptains, p \in RosterPrices :
                  (/\ response'.op = "assign"
                   /\ AssignCheck(st.current, st.balances, None, c, p).status = 200
                   /\ assign_player(r, None, c, p))
                  => /\ response'.status = 200
                     /\ Len(st1.teams[c]) = Len(st.teams[c]) + 1
                     /\ st1.teams[c][Len(st1.teams[c])].player = st.current
                     /\ st1.balances[c] = st.balances[c] - p
                     /\ st1.current = None
             /\ response'.op = "reset"
                 => /\ response'.status = 200
                    /\ st1.remaining = load_players(None)
                    /\ st1.skipped = <<>> /\ st1.current = None
                    /\ NumEntries(st1) = 0]_vars

\* an assign has succeeded while the directory took no writes: the memory has
\* a team entry that the state file does not hold
SaveFailureKeepsMutationWitness ==
  \E r \in Rooms :
    LET st == auction_states[r] IN
    /\ disk # "ok"
    /\ response.op = "assign" /\ response.status = 200
    /\ st.initialized /\ NumEntries(st) >= 1
    /\ state_files[r] # Snapshot(st)
    /\ state_files[r].kind = "dict" => state_files[r].teams # st.teams

\* C21: a reset of an initialised room, whatever its state, returns 200 and
\* leaves remaining equal to the roster, skipped empty, nobody on the block,
\* every configured captain with initial_points and an empty team, and the
\* state file holds the snapshot of that memory.
ResetRebuilds ==
  [][\A r \in RoomIds :
       (Initialized(r) /\ response'.op = "reset")
       => LET st1 == auction_states'[r] IN
          /\ response'.status = 200
          /\ st1.remaining = load_players(None)
          /\ st1.skipped = <<>> /\ st1.current = None
          /\ DOMAIN st1.balances = Range(DEFAULT_CAPTAINS)
          /\ DOMAIN st1.teams = Range(DEFAULT_CAPTAINS)
          /\ \A c \in Range(DEFAULT_CAPTAINS) :
               st1.balances[c] = INITIAL_POINTS /\ st1.teams[c] = <<>>
          /\ state_files'[r] = Snapshot(st1)]_vars

\* a reset has wiped a room that had team entries and skipped players: the
\* backup still shows them, the memory and the state file do not
ResetRebuildsWitness ==
  \E r \in Rooms :
    LET st  == auction_states[r]
        bak == backup_files[r]
    IN  /\ response.op = "reset" /\ response.status = 200
        /\ bak.kind = "dict"
        /\ \E c \in DOMAIN bak.teams : bak.teams[c] # <<>> /\ bak.balances[c] < INITIAL_POINTS
        /\ bak.current # None
        /\ NumEntries(st) = 0 /\ st.current = None
        /\ state_files[r] = Snapshot(st)

\* C22: while the roster is empty, a request that bootstraps a room and a
\* reset do not return 200, do not leave an initialised room in memory that
\* was not there before, and do not write the room's state file.
EmptyRosterRejected ==
  [][\A r \in RoomIds :
       (/\ load_players(None) = <<>>
        /\ response'.room_id = r
        /\ ~Initialized(r) \/ response'.op = "reset")
       => /\ response'.status # 200
          /\ ~Initialized(r) => ~(r \in DOMAIN auction_states' /\ auction_states'[r].initialized)
          /\ state_files'[r] = state_files[r]]_vars

\* C23: a status request (which only runs initialize_auction) that directly
\* follows a status request, with no edit of the players file in between,
\* leaves the memory and the files of the room as the first one left them,
\* whether the first one built the room from nothing or from a snapshot.
InitializeTwiceSame ==
  [][\A r \in RoomIds :
       (/\ response.op = "status" /\ response.room_id = r
        /\ response'.op = "status" /\ response'.room_id = r)
       => NothingChanged]_vars

\* a status request has bootstrapped a room from a snapshot that has a team
\* entry, a skipped player and a player on the block (the bootstrap save has
\* rotated that snapshot into the backup); a second request is a step from
\* this state to itself
InitializeTwiceSameWitness ==
  \E r \in Rooms :
    LET st == auction_states[r] IN
    /\ response.op = "status"
    /\ st.initialized /\ st.current # None /\ st.skipped # <<>>
    /\ backup_files[r].kind = "dict" /\ backup_files[r].current = st.current
    /\ state_files[r] = Snapshot(st)

\* C24: a request on one room leaves the memory, the state file and the
\* backup file of every other room as they were, in every order of the
\* requests on two rooms.
RoomsIndependent ==
  [][\A r \in TwoRooms :
       r # response'.room_id
       => /\ (r \in DOMAIN auction_states) = (r \in DOMAIN auction_states')
          /\ r \in DOMAIN auction_states => auction_states'[r] = auction_states[r]
          /\ state_files'[r] = state_files[r]
          /\ backup_files'[r] = backup_files[r]]_vars

\* both rooms are in use and differ: the default room has a team entry, the
\* other room has a skipped player and a player on the block, and the last
\* request was on the other room
RoomsIndependentWitness ==
  /\ TwoRooms \subseteq Rooms
  /\ NumEntries(auction_states["default"]) >= 1
  /\ NumEntries(auction_states["room2"]) = 0
  /\ auction_states["room2"].current # None
  /\ auction_states["room2"].skipped # <<>>
  /\ state_files["room2"] = Snapshot(auction_states["room2"])
  /\ state_files["default"] = Snapshot(auction_states["default"])
  /\ response.room_id = "room2"

\* s is a permutation of t
PermutationOf(s, t) ==
  /\ Len(s) = Len(t)
  /\ \A x \in Range(s) \cup Range(t) : Count(s, x) = Count(t, x)

CrashInSaveAdoptsSnapshot ==
  [][\A r \in RoomIds :
       (/\ response.op = "crash" /\ response.room_id = r
        /\ backup_files[r].kind = "dict"
        /\ response'.op = "status" /\ response'.room_id = r)
       => LET bak == backup_files[r]
              st1 == auction_states'[r]
          IN  /\ Initialized(r)'
              /\ st1.balances = bak.balances
              /\ st1.teams = bak.teams
              /\ st1.skipped = bak.skipped
              /\ st1.current = bak.current
              /\ st1.last_assignment = bak.last_assignment
              /\ Range(bak.remaining) \subseteq Range(st1.remaining)]_vars

\* C27: a reset discards the history: after a successful reset the room's
\* last assignment is null, whatever was assigned before, as it is in a room
\* that was just built fresh.
ResetDiscardsHistory ==
  [][\A r \in RoomIds :
       (response'.op = "reset" /\ response'.room_id = r /\ response'.status = 200)
       => /\ Initialized(r)'
          /\ auction_states'[r].last_assignment = NoAssignment]_vars

\* C28: the reconciliation with the roster runs on every bootstrap call, in
\* rooms that are already initialised too: after a save request (which only
\* bootstraps the room and saves it) on an initialised room, every player of
\* the roster is in remaining, skipped or a team, a player added to the roster
\* since the previous request included.
AddedPlayerJoinsRemaining ==
  [][\A r \in RoomIds :
       (Initialized(r) /\ response'.op = "save" /\ response'.room_id = r)
       => LET st1 == auction_states'[r]
          IN  \A p \in Roster :
                \/ In(p, st1.remaining)
                \/ In(p, st1.skipped)
                \/ TeamEntries(st1, p) >= 1]_vars

\* C29: after a bootstrap call that follows the removal of a player from the
\* roster, here the one of a save request on an initialised room, the name of
\* a player that is not in the roster is in none of remaining, skipped,
\* current or any team.
RemovedPlayerIsGone ==
  [][\A r \in RoomIds :
       (Initialized(r) /\ response'.op = "save" /\ response'.room_id = r)
       => LET st1 == auction_states'[r]
          IN  \A p \in Range(AllNames) \ Roster :
                /\ ~In(p, st1.remaining)
                /\ ~In(p, st1.skipped)
                /\ st1.current # p
                /\ TeamEntries(st1, p) = 0]_vars

\* C30: under every interleaving of concurrent assign requests on a room, no
\* captain's balance is ever negative, and whenever no assign is in progress
\* the balances and the prices paid add up to the initial points of all the
\* captains.
ConcurrentBalancesSound ==
  \A r \in Rooms :
    LET st == auction_states[r]
    IN  /\ \A c \in DOMAIN st.balances : st.balances[c] >= 0
        /\ (st.initialized /\ \A t \in Threads : threads[t].pc \in {"idle", "done"})
             => TotalBalance(st) + PricesPaid(st)
                  = INITIAL_POINTS * Cardinality(DOMAIN st.balances)

\* C31: while a pick or skip on a room is inside its delay, no other
\* operation takes effect on the room: a step that is not the sleeping
\* thread's own leaves the room's state as it is, and a pick that succeeds
\* sets current on a room whose current is null (it does not overwrite the
\* player another pick selected).
DelayExcludesOthers ==
  [][\A t \in Threads :
       /\ (threads[t].pc \in {"pick_sleep", "skip_sleep"} /\ threads'[t] = threads[t])
            => auction_states'[threads[t].room_id] = auction_states[threads[t].room_id]
       /\ (threads[t].pc = "pick_sleep" /\ threads'[t].pc = "done"
            /\ threads'[t].status = 200)
            => auction_states[threads[t].room_id].current = None]_vars

\* the player on the block, none in a room that is not in memory yet
CurrentOf(r) == IF Initialized(r) THEN auction_states[r].current ELSE None

\* C32: the current slot follows Empty --pick--> Selected, Selected --skip-->
\* Selected or Empty, Selected --assign--> Empty: it becomes non-null only
\* through a successful pick, and a non-null current is cleared or replaced
\* only by a successful skip or assign.
CurrentStateMachine ==
  [][\A r \in RoomIds :
       /\ (CurrentOf(r) = None /\ CurrentOf(r)' # None)
            => (response'.op = "pick" /\ response'.status = 200)
       /\ (CurrentOf(r) # None /\ CurrentOf(r)' # CurrentOf(r))
            => (response'.op \in {"skip", "assign"} /\ response'.status = 200)]_vars

\* C32, amended: besides pick, skip and assign, a reset empties the current
\* slot and a successful undo sets it to the current of the backup snapshot;
\* no other step and no rejected request changes it.
CurrentStateMachineWithHistory ==
  [][\A r \in RoomIds :
       /\ (CurrentOf(r) = None /\ CurrentOf(r)' # None)
            => \/ /\ response'.op = "pick" /\ response'.status = 200
                  /\ In(CurrentOf(r)', auction_states'[r].remaining)
               \/ /\ response'.op = "undo" /\ response'.status = 200
                  /\ CurrentOf(r)' = backup_files[r].current
       /\ (CurrentOf(r) # None /\ CurrentOf(r)' # CurrentOf(r))
            => \/ /\ response'.op = "skip" /\ response'.status = 200
               \/ /\ response'.op = "assign" /\ response'.status = 200
                  /\ CurrentOf(r)' = None
               \/ /\ response'.op = "reset" /\ response'.status = 200
                  /\ CurrentOf(r)' = None
               \/ /\ response'.op = "undo" /\ response'.status = 200
                  /\ CurrentOf(r)' = backup_files[r].current]_vars

\* an undo has put a player on the block: the room has a current player, and
\* the snapshot it was restored from is the state file
CurrentStateMachineWitness ==
  \E r \in Rooms :
    /\ response.op = "undo" /\ response.status = 200
    /\ auction_states[r].current # None
    /\ state_files[r] = Snapshot(auction_states[r])

\* C33: pick does not remove the selected player from remaining.  In every
\* state of a sequential execution with an unchanged roster a player on the
\* block is in remaining, not in skipped and on no team, and the player leaves
\* remaining only in the step of a successful skip or assign.
CurrentStaysInRemaining ==
  /\ [](\A r \in RoomIds : (Initialized(r) /\ auction_states[r].current # None) =>
          LET st == auction_states[r] IN
          /\ Count(st.remaining, st.current) = 1
          /\ ~In(st.current, st.skipped)
          /\ TeamEntries(st, st.current) = 0)
  /\ [][\A r \in RoomIds :
          (/\ Initialized(r) /\ auction_states[r].current # None
           /\ ~In(auction_states[r].current, auction_states'[r].remaining))
          => (response'.op \in {"skip", "assign"} /\ response'.status = 200)]_vars

\* C33, amended: the player on the block is in remaining, not in skipped and
\* on no team; it leaves remaining only in the step of a successful skip or
\* assign, or of an undo that restores a snapshot in which it is skipped.
CurrentStaysInRemainingUntilMoved ==
  /\ [](\A r \in RoomIds : (Initialized(r) /\ auction_states[r].current # None) =>
          LET st == auction_states[r] IN
          /\ Count(st.remaining, st.current) = 1
          /\ ~In(st.current, st.skipped)
          /\ TeamEntries(st, st.current) = 0)
  /\ [][\A r \in RoomIds :
          (/\ Initialized(r) /\ auction_states[r].current # None
           /\ ~In(auction_states[r].current, auction_states'[r].remaining))
          => \/ response'.op \in {"skip", "assign"} /\ response'.status = 200
             \/ /\ response'.op = "undo" /\ response'.status = 200
                /\ In(auction_states[r].current, backup_files[r].skipped)
                /\ In(auction_states[r].current, auction_states'[r].skipped)]_vars

\* a pick has just selected a player and the remaining list still holds the
\* whole roster, the selected player included
CurrentStaysInRemainingWitness ==
  \E r \in Rooms :
    LET st == auction_states[r] IN
    /\ response.op = "pick" /\ response.status = 200
    /\ st.current # None
    /\ In(st.current, st.remaining)
    /\ Len(st.remaining) = NumPlayers

\* C34: when the process restarts with both snapshot files in place, the
\* first undo after the restart succeeds and returns the room to the state of
\* the backup file, the state before the last saved operation: the bootstrap
\* that the undo runs does not overwrite the backup.
UndoAfterRestart ==
  [][\A r \in RoomIds :
       (/\ response.op = "restart"
        /\ state_files[r].kind = "dict" /\ backup_files[r].kind = "dict"
        /\ response'.op = "undo" /\ response'.room_id = r)
       => /\ response'.status = 200
          /\ Initialized(r)'
          /\ Snapshot(auction_states'[r]) = backup_files[r]]_vars

\* C35: in a room that serves an auction with its own roster, a pick or skip
\* request never removes an unassigned player of that roster from the room's
\* state: a player of the auction's roster who is in remaining or skipped
\* before the request is in remaining or skipped after it.
AuctionRosterKept ==
  [][\A r \in RoomIds :
       (Initialized(r) /\ response'.op \in {"pick", "skip"} /\ response'.room_id = r)
       => LET st  == auction_states[r]
              st1 == auction_states'[r]
          IN  \A p \in Range(load_players(SummerCup)) :
                (In(p, st.remaining) \/ In(p, st.skipped))
                => (In(p, st1.remaining) \/ In(p, st1.skipped))]_vars

\* C36: at every operation boundary of a sequential execution with an
\* unchanged roster it is never the case that remaining is empty while
\* skipped is non-empty: the skipped players can be reached by the next pick.
NoStrandedSkipped ==
  \A r \in RoomIds : Initialized(r) =>
    ~(auction_states[r].remaining = <<>> /\ auction_states[r].skipped # <<>>)

\* a skip has recycled: before it (the backup) the player on the block was
\* the last one in remaining and others were skipped, after it nobody is
\* skipped and remaining holds them all
NoStrandedSkippedWitness ==
  \E r \in Rooms :
    LET st  == auction_states[r]
        bak == backup_files[r]
    IN  /\ response.op = "skip" /\ response.status = 200
        /\ bak.kind = "dict" /\ bak.skipped # <<>>
        /\ bak.remaining = <<bak.current>>
        /\ st.skipped = <<>>
        /\ Len(st.remaining) = Len(bak.skipped) + 1

\* C37: a successful skip always leaves a player on the block, one of the
\* remaining players; when the player on the block is the only player in
\* remaining and skipped, the skip recycles and selects the same player again.
SkipAlwaysDraws ==
  [][\A r \in RoomIds :
       (response'.op = "skip" /\ response'.status = 200 /\ response'.room_id = r)
       => LET st  == auction_states[r]
              st1 == auction_states'[r]
          IN  /\ st1.current # None
              /\ In(st1.current, st1.remaining)
              /\ (/\ Initialized(r)
                   /\ Range(st.remaining) \cup Range(st.skipped) \subseteq {st.current})
                  => /\ st1.current = st.current
                     /\ st1.remaining = <<st.current>>
                     /\ st1.skipped = <<>>]_vars

\* the only unassigned player was skipped and is on the block again: the
\* state before the skip (the backup) and the state after it name the same
\* player, alone in remaining, the others being on a team
SkipAlwaysDrawsWitness ==
  \E r \in Rooms :
    LET st  == auction_states[r]
        bak == backup_files[r]
    IN  /\ response.op = "skip" /\ response.status = 200
        /\ bak.kind = "dict" /\ bak.current # None
        /\ bak.remaining = <<bak.current>> /\ bak.skipped = <<>>
        /\ st.current = bak.current
        /\ st.remaining = <<st.current>> /\ st.skipped = <<>>
        /\ NumEntries(st) >= 1

\* C38: after a pick with N unassigned players, N-1 consecutive skips put
\* every unassigned player on the block exactly once.  For N = 2: when a pick
\* has just succeeded in a room with two unassigned players, a skip puts the
\* other one on the block.
SkipsVisitEveryPlayer ==
  [][\A r \in RoomIds :
       (/\ Initialized(r)
        /\ response.op = "pick" /\ response.status = 200
        /\ Len(auction_states[r].remaining) + Len(auction_states[r].skipped) = 2
        /\ response'.op = "skip" /\ response'.status = 200)
       => LET st  == auction_states[r]
              st1 == auction_states'[r]
          IN  /\ st1.current # st.current
              /\ {st.current, st1.current} = Range(st.remaining) \cup Range(st.skipped)]_vars

\* C38, amended: in pick, skip and assign sequences a player in skipped is
\* not in remaining and not on the block; a pick, and a skip that leaves a
\* player in remaining (no recycle), put on the block a player that is
\* neither skipped nor the one just skipped, and the skip appends the player
\* it took off the block to skipped.  So after a pick with N unassigned
\* players, none of them skipped, the next skips each draw a new player; the
\* instance for N = 2 is the last conjunct.
SkipsVisitUnskippedPlayers ==
  /\ [](\A r \in RoomIds : Initialized(r) =>
          LET st == auction_states[r] IN
          /\ Range(st.remaining) \cap Range(st.skipped) = {}
          /\ ~In(st.current, st.skipped))
  /\ [][\A r \in RoomIds :
          LET st  == auction_states[r]
              st1 == auction_states'[r]
          IN  /\ (Initialized(r) /\ response'.op = "pick" /\ response'.status = 200)
                   => /\ st1.skipped = st.skipped /\ st1.remaining = st.remaining
                      /\ In(st1.current, st.remaining)
                      /\ ~In(st1.current, st.skipped)
              /\ (/\ Initialized(r) /\ response'.op = "skip" /\ response'.status = 200
                   /\ ListRemove(st.remaining, st.current) # <<>>)
                   => /\ st1.skipped = Append(st.skipped, st.current)
                      /\ st1.remaining = ListRemove(st.remaining, st.current)
                      /\ In(st1.current, st1.remaining)
                      /\ ~In(st1.current, st1.skipped)
              /\ (/\ Initialized(r)
                   /\ response.op = "pick" /\ response.status = 200
                   /\ Len(st.remaining) = 2 /\ st.skipped = <<>>
                   /\ response'.op = "skip" /\ response'.status = 200)
                   => /\ st1.current # st.current
                      /\ {st.current, st1.current} = Range(st.remaining)]_vars

\* the second of two unassigned players is on the block after a pick and a
\* skip: the first is the only skipped player, and the state before the skip
\* (the backup) had both in remaining and nobody skipped
SkipsVisitWitness ==
  \E r \in Rooms :
    LET st  == auction_states[r]
        bak == backup_files[r]
    IN  /\ response.op = "skip" /\ response.status = 200
        /\ bak.kind = "dict" /\ bak.current # None
        /\ Len(bak.remaining) = 2 /\ bak.skipped = <<>>
        /\ st.skipped = <<bak.current>>
        /\ st.current # None /\ st.current # bak.current
        /\ st.remaining = <<st.current>>

\* C39: at every operation boundary of an initialised room, with an
\* unchanged roster and no failed save, the state file holds the room's
\* remaining, skipped, current, balances, teams and last assignment as they
\* are in memory, the order of the lists included.
StateFileMirrorsMemory ==
  \A r \in RoomIds : Initialized(r) =>
    LET st == auction_states[r]
        f  == state_files[r]
    IN  /\ f.kind = "dict"
        /\ f.remaining = st.remaining
        /\ f.skipped = st.skipped
        /\ f.current = st.current
        /\ f.balances = st.balances
        /\ f.teams = st.teams
        /\ f.last_assignment = st.last_assignment

\* an assign was persisted and a rejected request followed: the state file
\* names the assignment that the room has in memory
StateFileMirrorsMemoryWitness ==
  \E r \in Rooms :
    /\ Initialized(r)
    /\ response.status = 400
    /\ auction_states[r].last_assignment # NoAssignment
    /\ NumEntries(auction_states[r]) >= 1
    /\ state_files[r].kind = "dict"
    /\ state_files[r].last_assignment = auction_states[r].last_assignment
    /\ state_files[r].teams = auction_states[r].teams

\* C40: creating a room never alters an existing room: a create-room request
\* leaves the teams, balances, remaining, skipped and current of every room
\* that is initialised in memory as they are.
CreateRoomKeepsExisting ==
  [][\A r \in CreateRooms :
       (Initialized(r) /\ response'.op = "create")
       => /\ auction_states'[r].teams = auction_states[r].teams
          /\ auction_states'[r].balances = auction_states[r].balances
          /\ auction_states'[r].remaining = auction_states[r].remaining
          /\ auction_states'[r].skipped = auction_states[r].skipped
          /\ auction_states'[r].current = auction_states[r].current]_vars


====
